---- MODULE Spec2Model ----
(***************************************************************************)
(* A model of nrobust's specification-curve engine                         *)
(* (src/src/nrobust/models.py): the OLSRobust model object, its fit loop   *)
(* over the specification space, the bootstrap draws, and the OLSResult    *)
(* artifact with its summary table, Bayesian model averaging and merge.    *)
(*                                                                         *)
(* Three specifications share the variables:                               *)
(*   Spec        the life of an OLSRobust object: construction, fit        *)
(*               (one step per full fit, per draw task, per fan-in),       *)
(*               publication of the result;                                *)
(*   SpecSample  the ModelSample of one specification and one group        *)
(*               bootstrap draw over it, for a widely drawn source table;  *)
(*   SpecResult  the OLSResult artifact: construction from drawn           *)
(*               matrices, compute_bma, merge.                             *)
(*                                                                         *)
(* Real numbers are modelled by integers.  The estimate a regression       *)
(* returns is a code that names the specification (and draw) it was        *)
(* computed for; SpecResult draws arbitrary values instead.                *)
(***************************************************************************)
EXTENDS Integers, Sequences, FiniteSets, TLC

\* ------------------------------------------------------------------ bounds
NRows == 2
MaxControls == 2
MaxDraws == 2
MaxSummaryDraws == 22
MaxCoef == 2
MaxBic == 3
NSampleRows == 3

\* ------------------------------------------------------------- vocabulary
\* Column names of the source table.  "z" is a column no specification uses.
YNames == <<"y1", "y2", "y3">>
XNames == <<"x">>
ControlNames == <<"c1", "c2", "c3", "c4">>
GroupName == "g"
None == "None"
GroupKeys == {"k1", "k2"}

Range(s) == {s[i] : i \in 1..Len(s)}

Prefix(s, n) == SubSeq(s, 1, n)

\* An unwritten cell of an np.empty array.
Garbage == 0 - 1

RECURSIVE Pow2(_)
Pow2(n) == IF n = 0 THEN 1 ELSE 2 * Pow2(n - 1)

RECURSIVE SumSeq(_)
SumSeq(s) == IF s = <<>> THEN 0 ELSE s[1] + SumSeq(Tail(s))

RECURSIVE Flatten(_)
Flatten(ss) == IF ss = <<>> THEN <<>> ELSE ss[1] \o Flatten(Tail(ss))

\* The position of a name in a sequence that holds it.
PosIn(s, c) == CHOOSE i \in 1..Len(s) : s[i] = c

\* --------------------------------------------------- utils (not in src/)
\* space_size(iterable) = 2^len.
space_size(pool) == Pow2(Len(pool))

\* The combinations of size r of a sequence, lexicographic by position.
RECURSIVE Combinations(_, _)
Combinations(s, r) ==
    IF r = 0 THEN << <<>> >>
    ELSE IF Len(s) < r THEN <<>>
    ELSE LET with == Combinations(Tail(s), r - 1)
             without == Combinations(Tail(s), r)
         IN  [k \in 1..Len(with) |-> <<s[1]>> \o with[k]] \o without

RECURSIVE SubsetsFromSize(_, _)
SubsetsFromSize(s, r) ==
    IF r > Len(s) THEN <<>>
    ELSE Combinations(s, r) \o SubsetsFromSize(s, r + 1)

\* all_subsets(ss): every subset, by increasing size, then by input order.
all_subsets(ss) == SubsetsFromSize(ss, 0)

\* ------------------------------------------------------------- the state
VARIABLES
    y,              \* self.y: the list of outcome indicator names
    data,           \* self.data: per row, the columns that are missing and the group key
    warned,         \* whether construction emitted MissingValueWarning
    results,        \* self.results: None or the OLSResult artifact
    y_specs,        \* self.y_specs, set by multiple_y
    cfg,            \* the arguments of fit (sample_size and kfold: <<>> is None)
    pc,             \* where the fit call is: idle, spec, draws, next_y, publish
    outcome,        \* how the last fit call ended: none, returned, raised
    failure,        \* the exception that ended it
    jy,             \* multi-outcome: position in y_specs (0 in single-outcome mode)
    index,          \* position in the control-subset enumeration, from 0
    comb,           \* the ModelSample of the current specification
    full,           \* what _full_sample_OLS returned for the current specification
    done,           \* the draw tasks of the current specification that have finished
    strap,          \* what each finished draw task returned
    processed,      \* history: the (outcome, control tuple) pairs taken up by the loop
    acc,            \* the arrays and lists the loop fills for the current outcome
    lists,          \* multi-outcome: the per-outcome arrays collected so far
    sample,         \* SpecSample: the rows a draw hands to stripped_ols
    bma,            \* SpecResult: what compute_bma returned
    merged,         \* SpecResult: how merge ended
    file,           \* what save wrote to the file, if anything
    loaded,         \* what load returned
    shuffled,       \* the table _strap_OLS holds after its shuffle step
    folds           \* the train and test tables of the k-fold loop

objVars == <<y, data, warned, results, y_specs>>
callVars == <<cfg, pc, outcome, failure>>
loopVars == <<jy, index, comb, full, done, strap, processed, acc, lists>>
sideVars == <<sample, bma, merged>>
ioVars == <<file, loaded, shuffled, folds>>
vars == <<objVars, callVars, loopVars, sideVars, ioVars>>

\* ------------------------------------------------- OLSRobust.__init__
\* models.py 264-266: a warning, not an error, when any cell is missing.
HasMissing(d) == \E r \in 1..Len(d.miss) : d.miss[r] # {}

\* ------------------------------------------------------- multiple_y
\* models.py 290-296: one composite per subset of self.y with more than one name.
KeepLongerThanOneMutant(ss) == SelectSeq(ss, LAMBDA s : Len(s) > 0)

KeepLongerThanOne(ss) == SelectSeq(ss, LAMBDA s : Len(s) > 1)

multiple_y(ys) == KeepLongerThanOne(all_subsets(ys))

\* models.py 294-295: the composite is subset.mean(axis=1) of the z-scored
\* indicators; pandas skips missing cells in a mean, so the composite of a row
\* is missing only when every indicator of the subset is missing in that row.
CompositeMissing(d, yspec, r) == Range(yspec) \subseteq d.miss[r]

\* ------------------------------------------------ the ModelSample (fit)
\* models.py 440-445 and 361-366: the columns sliced for one specification.
\* In multi-outcome mode the first column is the composite (line 368).
SliceColumns(ys, xs, yspec, spec, group) ==
    LET head == IF Len(ys) > 1 THEN <<"composite">> ELSE ys
    IN  IF group # None THEN head \o xs \o <<group>> \o spec
        ELSE head \o xs \o spec

CellMissing(d, ys, yspec, r, c) ==
    IF c = "composite" THEN CompositeMissing(d, yspec, r) ELSE c \in d.miss[r]

\* models.py 447 and 369: dropna keeps the rows with no missing cell among the columns.
Dropna(d, ys, yspec, cols) ==
    SelectSeq([r \in 1..Len(d.miss) |-> r],
              LAMBDA r : \A k \in 1..Len(cols) : ~CellMissing(d, ys, yspec, r, cols[k]))

\* utils.group_demean: every column but the group key has its group mean
\* subtracted; rows and columns stay.
group_demean(cmb, group) == [cmb EXCEPT !.demeaned = TRUE]

ModelSample(d, ys, xs, yspec, spec, group) ==
    LET cols == SliceColumns(ys, xs, yspec, spec, group)
        cmb == [rows |-> Dropna(d, ys, yspec, cols), cols |-> cols,
                yspec |-> yspec, demeaned |-> FALSE]
    IN  IF group # None THEN group_demean(cmb, group) ELSE cmb

\* ------------------------------------------- the estimates, as codes
RECURSIVE Mask(_, _)
Mask(names, s) ==
    IF names = <<>> THEN 0
    ELSE (IF names[1] \in s THEN 1 ELSE 0) + 2 * Mask(Tail(names), s)

\* A number that names the specification: its outcome names and its controls.
Tag(yspec, spec) == Mask(YNames, Range(yspec)) * 16 + Mask(ControlNames, Range(spec))

NameCode(c) ==
    IF c = "const" THEN 7
    ELSE IF c = GroupName THEN 6
    ELSE IF c \in Range(XNames) THEN 1
    ELSE 1 + PosIn(ControlNames, c)

\* The full-sample coefficient of regressor c in the specification tagged t.
FullB(t, c) == t * 16 + NameCode(c)
FullP(t, c) == 4096 + FullB(t, c)
FullLL(t) == t * 4
FullAIC(t) == t * 4 + 1
FullBIC(t) == t * 4 + 2
FullHQIC(t) == t * 4 + 3

\* What draw d returns for the specification tagged t.
StrapB(t, d) == t * 16 + d
StrapP(t, d) == 4096 + StrapB(t, d)

\* models.py 538-560: y is the first column, x every other column; simple_ols
\* appends the intercept last.  kfold is None: av_k_metric is None.
\* The group key column is still among the columns of x here.
full_sample_OLS(cmb) ==
    LET regs == Tail(cmb.cols) \o <<"const">>
        t == Tag(cmb.yspec, SelectSeq(cmb.cols, LAMBDA c : c \in Range(ControlNames)))
    IN  [b |-> [k \in 1..Len(regs) |-> FullB(t, regs[k])],
         p |-> [k \in 1..Len(regs) |-> FullP(t, regs[k])],
         ll |-> FullLL(t), aic |-> FullAIC(t), bic |-> FullBIC(t),
         hqic |-> FullHQIC(t), av_k_metric |-> None]

\* models.py 543-553, the k-fold loop.  sklearn's KFold without shuffling
\* cuts the positions 0..n-1 into k consecutive runs, the first n mod k of
\* them one longer; it raises ValueError when k > n.
FoldSize(n, k, f) == (n \div k) + (IF f <= n % k THEN 1 ELSE 0)

RECURSIVE FoldStart(_, _, _)
FoldStart(n, k, f) == IF f = 1 THEN 1 ELSE FoldStart(n, k, f - 1) + FoldSize(n, k, f - 1)

\* The test and train positions of fold f, from 1.
TestPositions(n, k, f) ==
    [i \in 1..FoldSize(n, k, f) |-> FoldStart(n, k, f) + i - 1]

TrainPositions(n, k, f) ==
    SelectSeq([i \in 1..n |-> i],
              LAMBDA i : i < FoldStart(n, k, f) \/ i >= FoldStart(n, k, f) + FoldSize(n, k, f))

\* models.py 547-551: y.loc[train], x.loc[train], x.loc[test], y.loc[test]
\* look the positions up as row labels.  The position p and the source row p
\* have the same label p - 1: loc returns the source rows so numbered, and
\* raises KeyError when the ModelSample has no row of one of the labels.
LocRaises(cmb, positions) == \E i \in 1..Len(positions) : positions[i] \notin Range(cmb.rows)

LocRows(cmb, positions) == positions

KFoldSplit(cmb, k) ==
    LET n == Len(cmb.rows)
    IN  IF k > n THEN [status |-> "ValueError"]
        ELSE IF \E f \in 1..k : \/ LocRaises(cmb, TrainPositions(n, k, f))
                                 \/ LocRaises(cmb, TestPositions(n, k, f))
             THEN [status |-> "KeyError"]
        ELSE [status |-> "folds",
              folds |-> [f \in 1..k |->
                           [train |-> LocRows(cmb, TrainPositions(n, k, f)),
                            test |-> LocRows(cmb, TestPositions(n, k, f))]]]

\* ------------------------------------------------------- _strap_OLS
\* models.py 594-596: the permutation idx_y is of the row labels of the
\* ModelSample, and iloc takes its entries as positions.  A source row r has
\* the label r - 1, and so does the position r: iloc raises IndexError on a
\* label with no position, that is, on a source row r > n.
ShuffleRaises(cmb, perm) == \E i \in 1..Len(perm) : perm[i] > Len(cmb.rows)

\* models.py 596: y.iloc[idx_y].reset_index(drop=True): the cell at the new
\* label i is the dependent cell of the row at the position idx_y[i].
ShuffledY(cmb, perm) == [i \in 1..Len(perm) |-> cmb.rows[perm[i]]]

\* models.py 597-598: x keeps the labels of the ModelSample; concat(axis=1)
\* aligns y and x on the label and leaves a missing cell (0) where only one
\* of them has the label.  A row is [y |-> the source row its dependent cell
\* comes from, x |-> the source row its predictor cells come from].
ShuffleConcat(ynew, xlabels) ==
    LET labels == (1..Len(ynew)) \cup Range(xlabels)
        top == CHOOSE m \in labels \cup {0} : \A l \in labels : l <= m
        ordered == SelectSeq([l \in 1..top |-> l], LAMBDA l : l \in labels)
    IN  [k \in 1..Len(ordered) |->
            [y |-> IF ordered[k] <= Len(ynew) THEN ynew[ordered[k]] ELSE 0,
             x |-> IF ordered[k] \in Range(xlabels) THEN ordered[k] ELSE 0]]

\* models.py 591-598: temp_data after the shuffle step.
ShuffleTable(cmb, perm) ==
    IF ShuffleRaises(cmb, perm) THEN [status |-> "IndexError"]
    ELSE [status |-> "table", rows |-> ShuffleConcat(ShuffledY(cmb, perm), cmb.rows)]

\* models.py 601: DataFrame.sample raises ValueError when more rows are asked
\* for than the frame holds and replace is off, and when the frame is empty.
SampleRaises(nrows, sample_size, replace) ==
    \/ ~replace /\ sample_size > nrows
    \/ nrows = 0 /\ sample_size > 0

\* models.py 610: np.random.choice raises ValueError on an empty population.
ChoiceRaises(nkeys, sample_size) == nkeys = 0 /\ sample_size > 0

KeyOf(d, r) == d.key[r]

UniqueKeys(d, cmb) == {KeyOf(d, cmb.rows[k]) : k \in 1..Len(cmb.rows)}

\* models.py 611: the rows whose key is among the drawn keys, each once.
SelectDrawn(d, rows, idx) == SelectSeq(rows, LAMBDA r : KeyOf(d, r) \in Range(idx))

GroupSize(d, rows, r) == Cardinality({k \in 1..Len(rows) : KeyOf(d, rows[k]) = KeyOf(d, r)})

\* models.py 612: the rows whose group has more than one row in the selection.
NoSingletonMutant(d, select) == SelectSeq(select, LAMBDA r : GroupSize(d, select, r) > 0)

NoSingleton(d, select) == SelectSeq(select, LAMBDA r : GroupSize(d, select, r) > 1)

\* models.py 610-615: what a group draw hands to stripped_ols.
StrapGroupSample(d, cmb, group, idx) ==
    [rows |-> NoSingleton(d, SelectDrawn(d, cmb.rows, idx)),
     cols |-> SelectSeq(cmb.cols, LAMBDA c : c # group)]

\* models.py 601-604: what a row draw hands to stripped_ols.
StrapRowSample(cmb, picked) == [rows |-> picked, cols |-> cmb.cols]

\* Whether draw raises before the regression, from the size of the ModelSample.
StrapRaises(d, cmb, group, sample_size, replace) ==
    IF group = None THEN SampleRaises(Len(cmb.rows), sample_size, replace)
    ELSE ChoiceRaises(Cardinality(UniqueKeys(d, cmb)), sample_size)

\* =================================================================
\* OLSResult
\* =================================================================
\* A missing cell of a pandas column.
NaN == 0 - 2

Sorted(row) == SortSeq(row, LAMBDA a, b : a < b)

\* numpy's 'nearest' quantile of n sorted observations: the observation at
\* position round(q * (n - 1)), halves rounded to the even position.
\* q is given in thousandths.  The position counts from 0.
NearestPosition(q1000, n) ==
    LET num == q1000 * (n - 1)
        fl == num \div 1000
        rem == num % 1000
    IN  IF rem < 500 THEN fl
        ELSE IF rem > 500 THEN fl + 1
        ELSE IF fl % 2 = 0 THEN fl ELSE fl + 1

\* (QuantileNearestMutant: the linear interpolation between the two
\* observations around q * (n - 1).)
QuantileNearestMutant(row, q1000) ==
    LET srt == Sorted(row)
        fl == (q1000 * (Len(row) - 1)) \div 1000
        rem == (q1000 * (Len(row) - 1)) % 1000
    IN  IF rem = 0 THEN srt[fl + 1]
        ELSE srt[fl + 1] + ((srt[fl + 2] - srt[fl + 1]) * rem) \div 1000

QuantileNearest(row, q1000) == Sorted(row)[NearestPosition(q1000, Len(row)) + 1]

\* Twice the median: the middle observation, or the mean of the two middle ones.
Median2(row) ==
    LET s == Sorted(row)
        n == Len(row)
    IN  IF n % 2 = 1 THEN 2 * s[(n + 1) \div 2] ELSE s[n \div 2] + s[n \div 2 + 1]

MaxOf(row) == CHOOSE v \in Range(row) : \A w \in Range(row) : w <= v
MinOf(row) == CHOOSE v \in Range(row) : \A w \in Range(row) : v <= w

\* models.py 169-178: one row of the summary per row of estimates.
\* (SummaryRowMutant: the two quantiles exchanged.)
SummaryRowMutant(row) ==
    [median2 |-> Median2(row), max |-> MaxOf(row), min |-> MinOf(row),
     ci_up |-> QuantileNearest(row, 25), ci_down |-> QuantileNearest(row, 975)]

SummaryRow(row) ==
    [median2 |-> Median2(row), max |-> MaxOf(row), min |-> MinOf(row),
     ci_up |-> QuantileNearest(row, 975), ci_down |-> QuantileNearest(row, 25)]

compute_summary(estimates) == [k \in 1..Len(estimates) |-> SummaryRow(estimates[k])]

\* pd.Series(array) put in a column: aligned on the row label, NaN where absent.
Column(arr, k) == IF k <= Len(arr) THEN arr[k] ELSE NaN

\* models.py 87-104.  y is [kind |-> "str", v |-> name] (broadcast to every
\* row) or [kind |-> "list", v |-> names] (one per row).
OLSResultInit(yarg, specs, all_predictors, controls, draws, estimates, all_b, all_p, p_values, ll_array, aic_array, bic_array, hqic_array, av_k_metric_array) ==
    LET base == compute_summary(estimates)
    IN  [y_name |-> yarg,
         specs_names |-> specs,
         all_predictors |-> all_predictors,
         controls |-> controls,
         draws |-> draws,
         estimates |-> estimates,
         p_values |-> p_values,
         all_b |-> all_b,
         all_p |-> all_p,
         summary_df |->
            [k \in 1..Len(base) |->
                [median2 |-> base[k].median2, max |-> base[k].max,
                 min |-> base[k].min, ci_up |-> base[k].ci_up,
                 ci_down |-> base[k].ci_down,
                 ll |-> Column(ll_array, k), aic |-> Column(aic_array, k),
                 bic |-> Column(bic_array, k), hqic |-> Column(hqic_array, k),
                 av_k_metric |-> Column(av_k_metric_array, k),
                 spec_name |-> IF k <= Len(specs) THEN specs[k] ELSE {"NaN"},
                 y |-> IF yarg.kind = "str" THEN yarg.v ELSE yarg.v[k]]]]

\* ---------------------------------------------------- compute_bma
\* exp(s/2) in thousandths, for s half units: 1000 at 0, changing by the
\* factor e^(1/2) = 1.6487 per step up and e^(-1/2) = 0.6065 per step down,
\* 0 once it underflows.
RECURSIVE ExpHalf(_)
ExpHalf(s) ==
    IF s = 0 THEN 1000
    ELSE IF s < 0 - 16 THEN 0
    ELSE IF s < 0 THEN (ExpHalf(s + 1) * 6065) \div 10000
    ELSE (ExpHalf(s - 1) * 16487) \div 10000

\* models.py 189: max(-bic/2), here in half units: max(-bic).
MaxLL(bics) == CHOOSE m \in {0 - b : b \in Range(bics)} : \A b \in Range(bics) : 0 - b <= m

\* models.py 190-191: exp((-bic/2) - max_ll), in thousandths.
ModelsLikelihood(bics) == [i \in 1..Len(bics) |-> ExpHalf((0 - bics[i]) - MaxLL(bics))]

\* models.py 199-200: which specifications name the control.
InclusionIdx(specs_names, ele) == [i \in 1..Len(specs_names) |-> ele \in specs_names[i]]

\* The values at the positions pos, in order.
At(vals, pos) == [k \in 1..Len(pos) |-> vals[pos[k]]]

\* models.py 187-213.  all_b must index three deep (a list of k x 1 arrays):
\* line 193 raises IndexError on a single k x 1 array.  Line 196 raises
\* ValueError when there are not as many coefficients as predictor names, and
\* line 204 when a control has not one coefficient per specification naming it.
\* probs and average_coefs are kept as numerators over sum_likelihoods.
compute_bma(r) ==
    LET bics == [i \in 1..Len(r.summary_df) |-> r.summary_df[i].bic]
        L == ModelsLikelihood(bics)
        Z == SumSeq(L)
        coefs == Flatten(r.all_b.v)
        var_names == Flatten(r.all_predictors)
        CoefsOf(ele) == At(coefs, SelectSeq([n \in 1..Len(coefs) |-> n],
                                            LAMBDA n : var_names[n] = ele))
        LikOf(ele) == At(L, SelectSeq([i \in 1..Len(L) |-> i],
                                      LAMBDA i : InclusionIdx(r.specs_names, ele)[i]))
    IN  IF r.all_b.depth < 3 THEN [status |-> "IndexError"]
        ELSE IF Len(coefs) # Len(var_names) THEN [status |-> "ValueError"]
        ELSE IF \E c \in Range(r.controls) : Len(CoefsOf(c)) # Len(LikOf(c))
             THEN [status |-> "ValueError"]
        ELSE [status |-> "table",
              sum_likelihoods |-> Z,
              models_likelihood |-> L,
              rows |-> [k \in 1..Len(r.controls) |->
                  [control_var |-> r.controls[k],
                   probs_num |-> SumSeq(LikOf(r.controls[k])),
                   average_coefs_num |->
                       SumSeq([n \in 1..Len(LikOf(r.controls[k])) |->
                                  CoefsOf(r.controls[k])[n] * LikOf(r.controls[k])[n]])]]]

\* ---------------------------------------------------------- merge
\* models.py 226-228: only the type of the argument is looked at.
merge(r, obj) ==
    IF ~obj.isOLSResult THEN "TypeError" ELSE "returned"

\* ------------------------------------------------------ save, load
\* models.py 113-114: _pickle.dump writes the object as its attributes, name
\* by name, in the order __init__ set them.
\* (PickleMutant: the p-values written in the place of the estimates.)
PickleMutant(r) ==
    << <<"y_name", r.y_name>>, <<"specs_names", r.specs_names>>,
       <<"all_predictors", r.all_predictors>>, <<"controls", r.controls>>,
       <<"draws", r.draws>>, <<"estimates", r.p_values>>,
       <<"p_values", r.p_values>>, <<"all_b", r.all_b>>, <<"all_p", r.all_p>>,
       <<"summary_df", r.summary_df>> >>

Pickle(r) ==
    << <<"y_name", r.y_name>>, <<"specs_names", r.specs_names>>,
       <<"all_predictors", r.all_predictors>>, <<"controls", r.controls>>,
       <<"draws", r.draws>>, <<"estimates", r.estimates>>,
       <<"p_values", r.p_values>>, <<"all_b", r.all_b>>, <<"all_p", r.all_p>>,
       <<"summary_df", r.summary_df>> >>

\* models.py 127-128: _pickle.load builds a new object and sets each attribute
\* the stream names to the value written with it.
Unpickle(bytes) ==
    [name \in {bytes[i][1] : i \in 1..Len(bytes)} |->
        bytes[CHOOSE i \in 1..Len(bytes) : bytes[i][1] = name][2]]

\* =================================================================
\* OLSRobust: construction and fit
\* =================================================================
NoResult == [kind |-> "None"]
NoComb == [rows |-> <<>>, cols |-> <<>>, yspec |-> <<>>, demeaned |-> FALSE]
NoFull == [b |-> <<>>, p |-> <<>>, ll |-> NaN, aic |-> NaN, bic |-> NaN,
           hqic |-> NaN, av_k_metric |-> None]
NoSample == [rows |-> <<>>, cols |-> <<>>, drawn |-> <<>>]
NoBma == [status |-> "not called"]

\* models.py 263-270.
Construct(ys, d) ==
    /\ y = ys
    /\ data = d
    /\ warned = HasMissing(d)
    /\ results = NoResult
    /\ y_specs = <<>>

\* models.py 332-333: the default sample size is the row count of the source table.
SampleSize(c, d) ==
    IF c.sample_size = <<>> THEN Len(d.miss) ELSE c.sample_size[1]

\* models.py 426-437 and 349-357: the arrays of one pass over the control subsets.
FreshArrays(space_n, draws) ==
    [all_predictors |-> <<>>, b_all_list |-> <<>>, p_all_list |-> <<>>,
     b_array |-> [i \in 1..space_n |-> [d \in 1..draws |-> Garbage]],
     p_array |-> [i \in 1..space_n |-> [d \in 1..draws |-> Garbage]],
     ll_array |-> [i \in 1..space_n |-> Garbage],
     aic_array |-> [i \in 1..space_n |-> Garbage],
     bic_array |-> [i \in 1..space_n |-> Garbage],
     hqic_array |-> [i \in 1..space_n |-> Garbage],
     av_k_metric_array |-> [i \in 1..space_n |-> Garbage]]

NoLists == [list_all_predictors |-> <<>>, list_b_array |-> <<>>, list_p_array |-> <<>>,
            list_ll_array |-> <<>>, list_aic_array |-> <<>>, list_bic_array |-> <<>>,
            list_hqic_array |-> <<>>, list_av_k_metric_array |-> <<>>]

FreshAcc(space_n, draws) ==
    [specs |-> <<>>, y_names |-> <<>>, arr |-> FreshArrays(space_n, draws)]

IdleLoop ==
    /\ jy = 0
    /\ index = 0
    /\ comb = NoComb
    /\ full = NoFull
    /\ done = {}
    /\ strap = <<>>
    /\ processed = <<>>
    /\ acc = FreshAcc(0, 0)
    /\ lists = NoLists

NoMerge == [status |-> "not called"]

IdleSide ==
    /\ sample = NoSample
    /\ bma = NoBma
    /\ merged = NoMerge

NoFile == [status |-> "no file"]
NoLoaded == [status |-> "not called"]
NoShuffled == [status |-> "not called"]
NoFolds == [status |-> "not called"]

IdleIo ==
    /\ file = NoFile
    /\ loaded = NoLoaded
    /\ shuffled = NoShuffled
    /\ folds = NoFolds

\* The source tables of Spec: every row complete but the first, which misses
\* at most one cell.  Group keys alternate.
FitGapColumns == {"y1", "y2", "x", "c1", "c2", GroupName, "z"}

FitTable(m) ==
    [miss |-> [r \in 1..NRows |-> IF r = 1 THEN m ELSE {}],
     key |-> [r \in 1..NRows |-> IF r % 2 = 1 THEN "k1" ELSE "k2"]]

FitTables == {FitTable(m) : m \in {{}} \cup {{c} : c \in FitGapColumns}}

FitConfigs ==
    [controls : {Prefix(ControlNames, n) : n \in 0..MaxControls},
     group : {None, GroupName},
     draws : 1..MaxDraws,
     sample_size : {<<>>, <<1>>},
     replace : BOOLEAN,
     kfold : {<<>>},
     shuffle : {FALSE}]

Init ==
    /\ \E n \in 1..Len(YNames), d \in FitTables : Construct(Prefix(YNames, n), d)
    /\ cfg \in FitConfigs
    /\ pc = "idle"
    /\ outcome = "none"
    /\ failure = None
    /\ IdleLoop
    /\ IdleSide
    /\ IdleIo

\* The specification the loop is at.
CurrentY == IF jy = 0 THEN y ELSE y_specs[jy]
SpaceN == space_size(cfg.controls)

\* models.py 438-439 (359-360): zip pairs the index with the subset at that position.
\* (CurrentSpecMutant: the enumeration taken from its end.)
CurrentSpecMutant == all_subsets(cfg.controls)[SpaceN - index]

CurrentSpec == all_subsets(cfg.controls)[index + 1]

\* models.py 438-439: the loop ends when the index range is used up.
\* (LoopFinishedMutant: it ends after the first specification.)
LoopFinishedMutant == index >= 1

LoopFinished == index = SpaceN

\* models.py 298-357 and 426-437: the call, up to the first specification.
Fit ==
    /\ pc = "idle"
    /\ pc' = "spec"
    /\ outcome' = "none"
    /\ failure' = None
    /\ IF Len(y) > 1
       THEN /\ y_specs' = multiple_y(y)
            /\ jy' = 1
       ELSE /\ y_specs' = y_specs
            /\ jy' = 0
    /\ index' = 0
    /\ acc' = FreshAcc(SpaceN, cfg.draws)
    /\ lists' = NoLists
    /\ comb' = NoComb
    /\ full' = NoFull
    /\ done' = {}
    /\ strap' = <<>>
    /\ processed' = <<>>
    /\ UNCHANGED <<y, data, warned, results, cfg, sideVars, ioVars>>

\* An exception leaves fit: nothing after the raising line runs.
Raise(what) ==
    /\ pc' = "idle"
    /\ outcome' = "raised"
    /\ failure' = what

\* models.py 438-454 (359-376): the ModelSample and the full-sample fit.
\* (FullFitMutant: the next pass starts without waiting for the draws.)
FullFitMutant ==
    /\ pc \in {"spec", "draws"}
    /\ ~LoopFinished
    /\ comb' = ModelSample(data, y, XNames, CurrentY, CurrentSpec, cfg.group)
    /\ processed' = Append(processed, <<CurrentY, CurrentSpec>>)
    /\ full' = full_sample_OLS(comb')
    /\ done' = {}
    /\ strap' = <<>>
    /\ pc' = "draws"
    /\ UNCHANGED <<objVars, cfg, outcome, failure, jy, index, acc, lists, sideVars, ioVars>>

FullFit ==
    /\ pc = "spec"
    /\ ~LoopFinished
    /\ comb' = ModelSample(data, y, XNames, CurrentY, CurrentSpec, cfg.group)
    /\ processed' = Append(processed, <<CurrentY, CurrentSpec>>)
    /\ full' = full_sample_OLS(comb')
    /\ done' = {}
    /\ strap' = <<>>
    /\ pc' = "draws"
    /\ UNCHANGED <<objVars, cfg, outcome, failure, jy, index, acc, lists, sideVars, ioVars>>

\* The same, on a design matrix that simple_ols cannot fit.
FullFitUnfit ==
    /\ pc = "spec"
    /\ ~LoopFinished
    /\ comb' = ModelSample(data, y, XNames, CurrentY, CurrentSpec, cfg.group)
    /\ processed' = Append(processed, <<CurrentY, CurrentSpec>>)
    /\ Raise("unfit model")
    /\ UNCHANGED <<objVars, cfg, jy, index, full, done, strap, acc, lists, sideVars, ioVars>>

\* models.py 455-463 (377-385): one draw task of the fan-out returns.  The
\* task works on its own copy of the ModelSample (line 591) and hands its
\* pair back to Parallel; it writes to nothing the loop or another task holds.
\* (DrawTaskMutant: the task writes its cell of b_array itself.)
DrawTaskMutant(d) ==
    /\ pc = "draws"
    /\ d \in (1..cfg.draws) \ done
    /\ ~StrapRaises(data, comb, cfg.group, SampleSize(cfg, data), cfg.replace)
    /\ done' = done \cup {d}
    /\ strap' = [e \in done \cup {d} |->
                    IF e = d
                    THEN [b |-> StrapB(Tag(CurrentY, CurrentSpec), d),
                          p |-> StrapP(Tag(CurrentY, CurrentSpec), d)]
                    ELSE strap[e]]
    /\ acc' = [acc EXCEPT !.arr.b_array[index + 1][d] = StrapB(Tag(CurrentY, CurrentSpec), d)]
    /\ UNCHANGED <<objVars, callVars, jy, index, comb, full, processed, lists, sideVars, ioVars>>

DrawTask(d) ==
    /\ pc = "draws"
    /\ d \in (1..cfg.draws) \ done
    /\ ~StrapRaises(data, comb, cfg.group, SampleSize(cfg, data), cfg.replace)
    /\ done' = done \cup {d}
    /\ strap' = [e \in done \cup {d} |->
                    IF e = d
                    THEN [b |-> StrapB(Tag(CurrentY, CurrentSpec), d),
                          p |-> StrapP(Tag(CurrentY, CurrentSpec), d)]
                    ELSE strap[e]]
    /\ UNCHANGED <<objVars, callVars, jy, index, comb, full, processed, acc, lists, sideVars, ioVars>>

\* models.py 601 and 610: the draw raises before it reaches the regression.
DrawTaskRaises(d) ==
    /\ pc = "draws"
    /\ d \in (1..cfg.draws) \ done
    /\ StrapRaises(data, comb, cfg.group, SampleSize(cfg, data), cfg.replace)
    /\ Raise("ValueError")
    /\ UNCHANGED <<objVars, cfg, loopVars, sideVars, ioVars>>

\* models.py 605 and 616: the resampled design matrix cannot be fitted.
DrawTaskUnfit(d) ==
    /\ pc = "draws"
    /\ d \in (1..cfg.draws) \ done
    /\ ~StrapRaises(data, comb, cfg.group, SampleSize(cfg, data), cfg.replace)
    /\ Raise("unfit model")
    /\ UNCHANGED <<objVars, cfg, loopVars, sideVars, ioVars>>

SetAt(s, k, v) == [s EXCEPT ![k] = v]

\* models.py 465-466 and 386-388.
AppendSpec(specs, ys, yspec, spec) ==
    Append(specs, IF Len(ys) > 1 THEN Range(yspec) \cup Range(spec) ELSE Range(spec))

\* models.py 467-475 and 389-395: the row of the current specification.
StoreRowMutant(arr, idx, b_list, p_list, f, xs, spec) ==
    [arr EXCEPT !.all_predictors = Append(@, xs \o spec \o <<"const">>),
                !.b_array = SetAt(@, 1, b_list),
                !.p_array = SetAt(@, 1, p_list),
                !.ll_array = SetAt(@, idx + 1, f.ll),
                !.aic_array = SetAt(@, idx + 1, f.aic),
                !.bic_array = SetAt(@, idx + 1, f.bic),
                !.hqic_array = SetAt(@, idx + 1, f.hqic),
                !.av_k_metric_array = SetAt(@, idx + 1, NaN),
                !.b_all_list = Append(@, f.b),
                !.p_all_list = Append(@, f.p)]

StoreRow(arr, idx, b_list, p_list, f, xs, spec) ==
    [arr EXCEPT !.all_predictors = Append(@, xs \o spec \o <<"const">>),
                !.b_array = SetAt(@, idx + 1, b_list),
                !.p_array = SetAt(@, idx + 1, p_list),
                !.ll_array = SetAt(@, idx + 1, f.ll),
                !.aic_array = SetAt(@, idx + 1, f.aic),
                !.bic_array = SetAt(@, idx + 1, f.bic),
                !.hqic_array = SetAt(@, idx + 1, f.hqic),
                !.av_k_metric_array = SetAt(@, idx + 1, NaN),
                !.b_all_list = Append(@, f.b),
                !.p_all_list = Append(@, f.p)]

\* models.py 455-475 (377-395): the fan-in and the bookkeeping of one specification.
Collect ==
    /\ pc = "draws"
    /\ done = 1..cfg.draws
    /\ acc' = [specs |-> AppendSpec(acc.specs, y, CurrentY, CurrentSpec),
               y_names |-> IF Len(y) > 1 THEN Append(acc.y_names, CurrentY)
                           ELSE acc.y_names,
               arr |-> StoreRow(acc.arr, index,
                                [d \in 1..cfg.draws |-> strap[d].b],
                                [d \in 1..cfg.draws |-> strap[d].p],
                                full, XNames, CurrentSpec)]
    /\ index' = index + 1
    /\ pc' = "spec"
    /\ UNCHANGED <<objVars, cfg, outcome, failure, jy, comb, full, done, strap,
                   processed, lists, sideVars, ioVars>>

\* models.py 397-404, then 347-357: the arrays of one outcome are put away.
NextOutcome ==
    /\ pc = "spec"
    /\ LoopFinished
    /\ jy > 0
    /\ lists' = [list_all_predictors |-> Append(lists.list_all_predictors, acc.arr.all_predictors),
                 list_b_array |-> Append(lists.list_b_array, acc.arr.b_array),
                 list_p_array |-> Append(lists.list_p_array, acc.arr.p_array),
                 list_ll_array |-> Append(lists.list_ll_array, acc.arr.ll_array),
                 list_aic_array |-> Append(lists.list_aic_array, acc.arr.aic_array),
                 list_bic_array |-> Append(lists.list_bic_array, acc.arr.bic_array),
                 list_hqic_array |-> Append(lists.list_hqic_array, acc.arr.hqic_array),
                 list_av_k_metric_array |->
                     Append(lists.list_av_k_metric_array, acc.arr.av_k_metric_array)]
    /\ IF jy < Len(y_specs)
       THEN /\ jy' = jy + 1
            /\ index' = 0
            /\ acc' = [acc EXCEPT !.arr = FreshArrays(SpaceN, cfg.draws)]
            /\ pc' = "spec"
       ELSE /\ UNCHANGED <<jy, index, acc>>
            /\ pc' = "publish"
    /\ UNCHANGED <<objVars, cfg, outcome, failure, comb, full, done, strap,
                   processed, sideVars, ioVars>>

\* models.py 477-492.
PublishSingle ==
    /\ pc = "spec"
    /\ LoopFinished
    /\ jy = 0
    /\ results' = OLSResultInit([kind |-> "str", v |-> y[1]], acc.specs,
                                acc.arr.all_predictors, cfg.controls, cfg.draws,
                                acc.arr.b_array,
                                [depth |-> 3, v |-> acc.arr.b_all_list],
                                [depth |-> 3, v |-> acc.arr.p_all_list],
                                acc.arr.p_array, acc.arr.ll_array, acc.arr.aic_array,
                                acc.arr.bic_array, acc.arr.hqic_array,
                                acc.arr.av_k_metric_array)
    /\ pc' = "idle"
    /\ outcome' = "returned"
    /\ UNCHANGED <<y, data, warned, y_specs, cfg, failure, loopVars, sideVars, ioVars>>

\* models.py 406-423: all_b and all_p are the vectors of the last specification.
PublishMulti ==
    /\ pc = "publish"
    /\ results' = OLSResultInit([kind |-> "list", v |-> acc.y_names], acc.specs,
                                lists.list_all_predictors, cfg.controls, cfg.draws,
                                Flatten(lists.list_b_array),
                                [depth |-> 2, v |-> full.b],
                                [depth |-> 2, v |-> full.p],
                                Flatten(lists.list_p_array),
                                Flatten(lists.list_ll_array),
                                Flatten(lists.list_aic_array),
                                Flatten(lists.list_bic_array),
                                Flatten(lists.list_hqic_array),
                                Flatten(lists.list_av_k_metric_array))
    /\ pc' = "idle"
    /\ outcome' = "returned"
    /\ UNCHANGED <<y, data, warned, y_specs, cfg, failure, loopVars, sideVars, ioVars>>

\* models.py 180-213, called on the artifact the model holds.
ComputeBMA ==
    /\ pc = "idle"
    /\ results # NoResult
    /\ bma' = compute_bma(results)
    /\ UNCHANGED <<objVars, callVars, loopVars, sample, merged, ioVars>>

Next ==
    \/ Fit
    \/ FullFit
    \/ FullFitUnfit
    \/ \E d \in 1..MaxDraws : DrawTask(d)
    \/ \E d \in 1..MaxDraws : DrawTaskRaises(d)
    \/ \E d \in 1..MaxDraws : DrawTaskUnfit(d)
    \/ Collect
    \/ NextOutcome
    \/ PublishSingle
    \/ PublishMulti
    \/ ComputeBMA

Spec == Init /\ [][Next]_vars

\* A step of a fit call that has started.  fit runs on the caller's thread and
\* Parallel blocks until every task has returned or one has raised: a call
\* that can take a step does take one.  Nothing makes the caller call fit.
FitStep ==
    \/ FullFit
    \/ FullFitUnfit
    \/ \E d \in 1..MaxDraws : DrawTask(d)
    \/ \E d \in 1..MaxDraws : DrawTaskRaises(d)
    \/ \E d \in 1..MaxDraws : DrawTaskUnfit(d)
    \/ Collect
    \/ NextOutcome
    \/ PublishSingle
    \/ PublishMulti

\* The source tables of FairSpec: complete, or the first row missing its
\* outcome cell; one outcome, or the one composite of two indicators.
FairTables == {FitTable(m) : m \in {{}, {"y1"}}}

InitFair ==
    /\ \E n \in 1..2, d \in FairTables : Construct(Prefix(YNames, n), d)
    /\ cfg \in FitConfigs
    /\ pc = "idle"
    /\ outcome = "none"
    /\ failure = None
    /\ IdleLoop
    /\ IdleSide
    /\ IdleIo

FairSpec == InitFair /\ [][Next]_vars /\ WF_vars(FitStep)

\* =================================================================
\* Claims on Spec
\* =================================================================
ProcessedControls == [k \in 1..Len(processed) |-> processed[k][2]]

\* a comes before b: shorter, or as long and first by the positions in the pool.
LexLess(a, b, pool) ==
    \E k \in 1..Len(a) :
        /\ \A j \in 1..(k - 1) : a[j] = b[j]
        /\ PosIn(pool, a[k]) < PosIn(pool, b[k])

ComesBefore(a, b, pool) ==
    \/ Len(a) < Len(b)
    \/ Len(a) = Len(b) /\ LexLess(a, b, pool)

\* C1: a single-outcome fit that returned has taken up exactly the 2^N subsets
\* of the control pool, each once, by increasing size and within a size by the
\* input order of the names, the empty subset first and the full one last;
\* specs_names holds them in that order.  While the fit runs, what it has
\* taken up so far is so ordered.
C1_EnumerationOrder ==
    Len(y) = 1 =>
        /\ \A k \in 1..(Len(processed) - 1) :
              ComesBefore(ProcessedControls[k], ProcessedControls[k + 1], cfg.controls)
        /\ outcome = "returned" =>
              /\ Len(processed) = Pow2(Len(cfg.controls))
              /\ \A S \in SUBSET Range(cfg.controls) :
                    Cardinality({k \in 1..Len(processed) :
                                    Range(ProcessedControls[k]) = S}) = 1
              /\ ProcessedControls[1] = <<>>
              /\ Range(ProcessedControls[Len(processed)]) = Range(cfg.controls)
              /\ results.specs_names =
                    [k \in 1..Len(processed) |-> Range(ProcessedControls[k])]

C1_Witness ==
    /\ Len(y) = 1
    /\ outcome = "returned"
    /\ Len(cfg.controls) >= 2

\* The tag of the specification a row of the artifact is named for.
RowTag(r, k) ==
    IF r.y_name.kind = "list"
    THEN Mask(YNames, r.specs_names[k]) * 16 + Mask(ControlNames, r.specs_names[k])
    ELSE Mask(YNames, {r.y_name.v}) * 16 + Mask(ControlNames, r.specs_names[k])

\* The name set of the specification at enumeration position k (from 1),
\* subsets being the enumeration of the control pool.
EnumeratedName(subsets, k) ==
    LET n == Len(subsets)
        ctl == Range(subsets[((k - 1) % n) + 1])
    IN  IF Len(y) > 1 THEN Range(y_specs[((k - 1) \div n) + 1]) \cup ctl ELSE ctl

\* C2: in the artifact of a fit with draws = D, every row of estimates and of
\* p_values has exactly D entries, and row i of estimates, of p_values and of
\* ll, aic, bic, hqic was computed for the specification at enumeration index
\* i, the one specs_names[i] names.
C2_RowsBelongToSpecs ==
    results # NoResult =>
        LET subsets == all_subsets(cfg.controls)
            names == results.specs_names
        IN  /\ Len(results.estimates) = Len(names)
            /\ Len(results.p_values) = Len(names)
            /\ Len(results.summary_df) = Len(names)
            /\ \A k \in 1..Len(names) :
                  LET t == RowTag(results, k)
                      row == results.summary_df[k]
                  IN  /\ names[k] = EnumeratedName(subsets, k)
                      /\ Len(results.estimates[k]) = cfg.draws
                      /\ Len(results.p_values[k]) = cfg.draws
                      /\ \A d \in 1..cfg.draws :
                            /\ results.estimates[k][d] = StrapB(t, d)
                            /\ results.p_values[k][d] = StrapP(t, d)
                      /\ row.ll = FullLL(t)
                      /\ row.aic = FullAIC(t)
                      /\ row.bic = FullBIC(t)
                      /\ row.hqic = FullHQIC(t)
                      /\ row.spec_name = names[k]

C2_Witness ==
    /\ results # NoResult
    /\ cfg.draws >= 2
    /\ Len(results.specs_names) >= 4

DefaultConfig(c) == c.sample_size = <<>> /\ ~c.replace /\ c.group = None

\* C5: a source table with missing cells gives a warning at construction, and
\* a fit with the default configuration is never ended by the resampling for
\* want of rows (it can only be ended by a design matrix that cannot be fitted).
C5_MissingValuesRecoverable ==
    /\ HasMissing(data) => warned
    /\ (HasMissing(data) /\ DefaultConfig(cfg) /\ outcome = "raised") =>
          failure = "unfit model"

\* C8: in multi-outcome mode with M indicators and N controls the composites
\* are the subsets of the indicators of size >= 2, 2^M - M - 1 of them, by
\* increasing size and input order; the artifact has (2^M - M - 1) * 2^N rows,
\* and row j * 2^N + i (both from 0) is that of composite j and control subset i.
C8_CompositeCrossProduct ==
    (results # NoResult /\ Len(y) > 1) =>
        LET M == Len(y)
            n == Pow2(Len(cfg.controls))
            subsets == all_subsets(cfg.controls)
        IN  /\ Len(y_specs) = Pow2(M) - M - 1
            /\ \A S \in SUBSET Range(y) :
                  Cardinality({j \in 1..Len(y_specs) : Range(y_specs[j]) = S})
                     = IF Cardinality(S) >= 2 THEN 1 ELSE 0
            /\ \A j \in 1..(Len(y_specs) - 1) : ComesBefore(y_specs[j], y_specs[j + 1], y)
            /\ Len(results.summary_df) = Len(y_specs) * n
            /\ Len(results.estimates) = Len(y_specs) * n
            /\ \A j \in 0..(Len(y_specs) - 1), i \in 0..(n - 1) :
                  LET k == j * n + i + 1
                      t == Tag(y_specs[j + 1], subsets[i + 1])
                  IN  /\ results.summary_df[k].y = y_specs[j + 1]
                      /\ results.specs_names[k] =
                            Range(y_specs[j + 1]) \cup Range(subsets[i + 1])
                      /\ \A d \in 1..cfg.draws : results.estimates[k][d] = StrapB(t, d)
                      /\ results.summary_df[k].bic = FullBIC(t)

C8_Witness ==
    /\ results # NoResult
    /\ Len(y) = 3
    /\ Len(cfg.controls) >= 1

\* How many specifications the call has to fit.
TotalSpecs == SpaceN * (IF Len(y) > 1 THEN Len(multiple_y(y)) ELSE 1)

\* Every specification has had its full fit and all its draws, and its row.
EverythingFitted ==
    /\ Len(processed) = TotalSpecs
    /\ Len(acc.specs) = TotalSpecs
    /\ done = 1..cfg.draws

\* C10: results changes only in the step that ends a call in which every
\* specification has had its full fit and all its draws; a step that raises
\* leaves results as it was and ends the call, and after it no specification
\* is taken up until fit is called again.
C10_NoPartialResult ==
    [][/\ results' # results => (EverythingFitted /\ outcome' = "returned" /\ pc' = "idle")
       /\ outcome' = "raised" => (results' = results /\ pc' = "idle")
       /\ (outcome = "raised" /\ processed' # processed) => processed' = <<>>]_vars

C10_Witness ==
    /\ outcome = "raised"
    /\ results # NoResult
    /\ Len(processed) >= 2

\* C12: compute_bma returns, for every control c of the pool, the sum of L_i
\* over exactly the specifications that name c (over Z) as its inclusion
\* probability, and the sum over those specifications of the full-sample
\* coefficient of c in specification i times L_i (over Z) as its averaged
\* coefficient.
C12_BmaWeighting ==
    bma # NoBma =>
        /\ bma.status = "table"
        /\ Len(bma.rows) = Len(results.controls)
        /\ bma.sum_likelihoods = SumSeq(bma.models_likelihood)
        /\ \A k \in 1..Len(results.controls) :
              LET c == results.controls[k]
                  L == bma.models_likelihood
                  named(i) == c \in results.specs_names[i]
              IN  /\ bma.rows[k].control_var = c
                  /\ bma.rows[k].probs_num =
                        SumSeq([i \in 1..Len(L) |-> IF named(i) THEN L[i] ELSE 0])
                  /\ bma.rows[k].average_coefs_num =
                        SumSeq([i \in 1..Len(L) |->
                                  IF named(i) THEN FullB(RowTag(results, i), c) * L[i]
                                  ELSE 0])

\* C14: with or without a group variable, the full-sample fit of a
\* specification has exactly one coefficient per name of its predictor list
\* (the treatment, its controls, const), each the coefficient of that name:
\* the group key column is not a regressor.
C14_GroupKeyNeverRegressor ==
    pc = "draws" =>
        LET names == XNames \o CurrentSpec \o <<"const">>
            t == Tag(CurrentY, CurrentSpec)
        IN  /\ Len(full.b) = Len(names)
            /\ Len(full.p) = Len(names)
            /\ \A k \in 1..Len(names) : full.b[k] = FullB(t, names[k])
            /\ \A k \in 1..Len(full.b) : full.b[k] # FullB(t, GroupName)

\* C15: the artifact of a fit, single- or multi-outcome, holds one full-sample
\* coefficient vector and one predictor-name list per specification, in
\* enumeration order, and compute_bma on it returns a table with one row per
\* control of the pool, in pool order.
C15_ArtifactHoldsEverySpecification ==
    results # NoResult =>
        LET subsets == all_subsets(cfg.controls)
            n == Len(results.specs_names)
            ctl(k) == subsets[((k - 1) % Len(subsets)) + 1]
        IN  /\ results.all_b.depth = 3
            /\ Len(results.all_b.v) = n
            /\ Len(results.all_predictors) = n
            /\ \A k \in 1..n :
                  /\ results.all_predictors[k] = XNames \o ctl(k) \o <<"const">>
                  /\ results.all_b.v[k][1] = FullB(RowTag(results, k), XNames[1])
            /\ bma # NoBma =>
                  /\ bma.status = "table"
                  /\ [k \in 1..Len(bma.rows) |-> bma.rows[k].control_var] = cfg.controls

\* The cells of a row of the draw matrices that have not been written.
Unwritten(row) == \A d \in 1..Len(row) : row[d] = Garbage

\* C17: whatever the order in which the draw tasks of a specification
\* return, a task changes nothing but its own return value (not the
\* ModelSample, not the matrices, not another task's value); the row of the
\* specification in b_array and p_array is written in one step, once, after
\* all D tasks have returned, no other row changing in that step; and the
\* matrices are read into the artifact only when no cell is unwritten.
C17_DrawCellsSingleWriter ==
    [][/\ (pc = "draws" /\ done' # done) =>
             /\ \E d \in (1..cfg.draws) \ done : done' = done \cup {d}
             /\ \A e \in done : strap'[e] = strap[e]
             /\ comb' = comb
             /\ acc' = acc
             /\ data' = data
       /\ (pc = "draws" /\ acc' # acc) =>
             /\ done = 1..cfg.draws
             /\ \A k \in 1..Len(acc.arr.b_array) :
                   IF k = index + 1
                   THEN /\ Unwritten(acc.arr.b_array[k]) /\ Unwritten(acc.arr.p_array[k])
                        /\ acc'.arr.b_array[k] = [d \in 1..cfg.draws |-> strap[d].b]
                        /\ acc'.arr.p_array[k] = [d \in 1..cfg.draws |-> strap[d].p]
                   ELSE /\ acc'.arr.b_array[k] = acc.arr.b_array[k]
                        /\ acc'.arr.p_array[k] = acc.arr.p_array[k]
       /\ results' # results =>
             \A k \in 1..Len(results'.estimates) :
                 \A d \in 1..cfg.draws : /\ results'.estimates[k][d] # Garbage
                                          /\ results'.p_values[k][d] # Garbage]_vars

\* The second draw task has returned before the first, in a later specification.
C17_Witness ==
    /\ pc = "draws"
    /\ done = {2}
    /\ index >= 1
    /\ Unwritten(acc.arr.b_array[index + 1])
    /\ ~Unwritten(acc.arr.b_array[index])

\* C18: a full fit starts only when the specification before it has had all
\* its D draws and its fan-in, and it is of the specification next in the
\* enumeration; a draw returns only for the specification whose full fit
\* was the last to start and whose fan-in has not happened.  The fan-out of
\* a specification is left only by its fan-in, after all D draws, or by an
\* exception, and it is left; and a call that has started ends.
C18_SequentialSpecifications ==
    /\ [][/\ (processed' # processed /\ processed' # <<>>) =>
                /\ processed' = Append(processed, <<CurrentY, CurrentSpec>>)
                /\ Len(acc.specs) = Len(processed)
                /\ processed # <<>> => done = 1..cfg.draws
                /\ Len(processed) = (IF jy = 0 THEN 0 ELSE jy - 1) * SpaceN + index
          /\ done' # done =>
                \/ done' = {}
                \/ /\ Len(processed) = Len(acc.specs) + 1
                   /\ processed' = processed
                   /\ full' = full
                   /\ full # NoFull
          /\ (pc = "draws" /\ pc' # "draws") =>
                \/ outcome' = "raised"
                \/ /\ done = 1..cfg.draws
                   /\ index' = index + 1
                   /\ Len(acc'.specs) = Len(processed)]_vars
    /\ (pc = "draws") ~> (pc # "draws")
    /\ (pc # "idle") ~> (pc = "idle" /\ outcome \in {"returned", "raised"})

\* A multi-outcome fit has gone through every specification and returned.
C18_Witness ==
    /\ outcome = "returned"
    /\ pc = "idle"
    /\ Len(y) = 2
    /\ cfg.draws = 2
    /\ Len(processed) = TotalSpecs
    /\ Len(processed) >= 4

\* =================================================================
\* SpecSample: the ModelSample of a specification, and one draw over it
\* =================================================================
\* The source tables of SpecSample: every row misses at most one of these
\* cells, and has any group key (the first row has the first key: the names
\* of the keys do not matter).
SampleGapColumns == {"y1", "c1", GroupName, "z"}

SampleTables ==
    [miss : [1..NSampleRows -> {{}} \cup {{c} : c \in SampleGapColumns}],
     key : {k \in [1..NSampleRows -> GroupKeys] : k[1] = "k1"}]

\* (replace is not read in the group branch of _strap_OLS, so it varies only
\* without a group; row draws are taken with an explicit sample_size.)
SampleConfigs ==
    {c \in [controls : {Prefix(ControlNames, 1)},
            group : {None, GroupName},
            draws : {1},
            sample_size : {<<>>, <<2>>},
            replace : BOOLEAN,
            kfold : {<<>>},
            shuffle : {FALSE}] :
        IF c.group = None THEN c.sample_size # <<>> ELSE ~c.replace}

InitSample ==
    /\ \E n \in 1..2, d \in SampleTables : Construct(Prefix(YNames, n), d)
    /\ cfg \in SampleConfigs
    /\ pc = "idle"
    /\ outcome = "none"
    /\ failure = None
    /\ IdleLoop
    /\ IdleSide
    /\ IdleIo

\* The outcomes fit goes through: self.y, or the composites of multiple_y.
Outcomes == IF Len(y) > 1 THEN Range(multiple_y(y)) ELSE {y}

\* models.py 438-450 (359-372) for one specification of the space.
BuildSample(yspec, spec) ==
    /\ comb' = ModelSample(data, y, XNames, yspec, spec, cfg.group)
    /\ sample' = NoSample
    /\ shuffled' = NoShuffled
    /\ folds' = NoFolds
    /\ UNCHANGED <<objVars, callVars, jy, index, full, done, strap, processed,
                   acc, lists, bma, merged, file, loaded>>

\* models.py 610-615: a group draw with the keys idx.
GroupDraw(idx) ==
    /\ comb # NoComb
    /\ cfg.group # None
    /\ sample.drawn = <<>>
    /\ sample' = [rows |-> StrapGroupSample(data, comb, cfg.group, idx).rows,
                  cols |-> StrapGroupSample(data, comb, cfg.group, idx).cols,
                  drawn |-> idx]
    /\ UNCHANGED <<objVars, callVars, loopVars, bma, merged, ioVars>>

Injective(s) == \A a, b \in 1..Len(s) : s[a] = s[b] => a = b

\* models.py 601-604: a row draw of the rows picked.
RowDraw(picked) ==
    /\ comb # NoComb
    /\ cfg.group = None
    /\ sample.rows = <<>>
    /\ ~SampleRaises(Len(comb.rows), SampleSize(cfg, data), cfg.replace)
    /\ cfg.replace \/ Injective(picked)
    /\ sample' = [rows |-> StrapRowSample(comb, picked).rows,
                  cols |-> StrapRowSample(comb, picked).cols,
                  drawn |-> <<>>]
    /\ UNCHANGED <<objVars, callVars, loopVars, bma, merged, ioVars>>

NextSample ==
    \/ \E yspec \in Outcomes, k \in 1..SpaceN :
          BuildSample(yspec, all_subsets(cfg.controls)[k])
    \/ \E idx \in [1..SampleSize(cfg, data) -> UniqueKeys(data, comb)] : GroupDraw(idx)
    \/ \E picked \in [1..SampleSize(cfg, data) -> Range(comb.rows)] : RowDraw(picked)

SpecSample == InitSample /\ [][NextSample]_vars

\* The columns the specification of a ModelSample requires.
RequiredColumns(cmb) ==
    Range(cmb.yspec) \cup Range(XNames)
        \cup (Range(cmb.cols) \cap Range(ControlNames))
        \cup (IF cfg.group # None THEN {cfg.group} ELSE {})

\* C6: the ModelSample of a specification holds exactly the source rows with
\* no missing cell in any column the specification requires: its outcome
\* indicators, the treatment, its controls, and the group column if configured.
C6_ListwiseDeletionExact ==
    comb # NoComb =>
        Range(comb.rows) =
            {r \in 1..Len(data.miss) : data.miss[r] \cap RequiredColumns(comb) = {}}

\* How many rows of the ModelSample have the key k.
RowsOfKey(k) == {r \in Range(comb.rows) : KeyOf(data, r) = k}

ShuffleConfigs ==
    [controls : {Prefix(ControlNames, 1)},
     group : {None, GroupName},
     draws : {1},
     sample_size : {<<>>},
     replace : {TRUE},
     kfold : {<<>>},
     shuffle : {TRUE}]

InitShuffle ==
    /\ \E n \in 1..2, d \in SampleTables : Construct(Prefix(YNames, n), d)
    /\ cfg \in ShuffleConfigs
    /\ pc = "idle"
    /\ outcome = "none"
    /\ failure = None
    /\ IdleLoop
    /\ IdleSide
    /\ IdleIo

\* What np.random.permutation can return for the labels of the rows.
LabelPermutations(rows) == {p \in [1..Len(rows) -> Range(rows)] : Injective(p)}

\* models.py 591-598 in one draw task, idx_y being perm.
Shuffle(perm) ==
    /\ comb # NoComb
    /\ cfg.shuffle
    /\ shuffled = NoShuffled
    /\ shuffled' = ShuffleTable(comb, perm)
    /\ UNCHANGED <<objVars, callVars, loopVars, sideVars, file, loaded, folds>>

NextShuffle ==
    \/ \E yspec \in Outcomes, k \in 1..SpaceN :
          BuildSample(yspec, all_subsets(cfg.controls)[k])
    \/ \E perm \in LabelPermutations(comb.rows) : Shuffle(perm)

SpecShuffle == InitShuffle /\ [][NextShuffle]_vars

\* C13: in shuffle mode the table a draw resamples has as many rows as the
\* ModelSample, its dependent column is a permutation of the ModelSample's
\* dependent column, its predictor cells are those of the ModelSample row for
\* row, and no cell is missing; also for a ModelSample that lost rows to
\* listwise deletion.
C13_ShufflePermutesOutcome ==
    shuffled # NoShuffled =>
        /\ shuffled.status = "table"
        /\ Len(shuffled.rows) = Len(comb.rows)
        /\ [k \in 1..Len(shuffled.rows) |-> shuffled.rows[k].x] = comb.rows
        /\ {shuffled.rows[k].y : k \in 1..Len(shuffled.rows)} = Range(comb.rows)
        /\ \A k \in 1..Len(shuffled.rows) :
              shuffled.rows[k].y # 0 /\ shuffled.rows[k].x # 0

\* =================================================================
\* SpecKFold: the k-fold loop of the full-sample fit over the ModelSample
\* =================================================================
KFoldConfigs ==
    [controls : {Prefix(ControlNames, 1)},
     group : {None, GroupName},
     draws : {1},
     sample_size : {<<>>},
     replace : {TRUE},
     kfold : {<<2>>, <<3>>},
     shuffle : {FALSE}]

InitKFold ==
    /\ \E n \in 1..2, d \in SampleTables : Construct(Prefix(YNames, n), d)
    /\ cfg \in KFoldConfigs
    /\ pc = "idle"
    /\ outcome = "none"
    /\ failure = None
    /\ IdleLoop
    /\ IdleSide
    /\ IdleIo

\* models.py 538-560 with kfold set: the fit, then the loop over the folds.
\* An exception in the loop leaves _full_sample_OLS without a return value.
KFoldFit ==
    /\ comb # NoComb
    /\ cfg.kfold # <<>>
    /\ folds = NoFolds
    /\ folds' = KFoldSplit(comb, cfg.kfold[1])
    /\ full' = IF folds'.status = "folds"
                THEN [full_sample_OLS(comb) EXCEPT !.av_k_metric = "mean of the fold rmse"]
                ELSE full
    /\ UNCHANGED <<objVars, callVars, jy, index, comb, done, strap, processed, acc, lists,
                   sideVars, file, loaded, shuffled>>

NextKFold ==
    \/ \E yspec \in Outcomes, k \in 1..SpaceN :
          BuildSample(yspec, all_subsets(cfg.controls)[k])
    \/ KFoldFit

SpecKFold == InitKFold /\ [][NextKFold]_vars

\* C16: with a fold count k no larger than the ModelSample, also for a
\* ModelSample that lost rows to listwise deletion, the loop runs over k
\* folds in which every row of the ModelSample is held out exactly once, the
\* training rows of a fold are exactly the rows of the ModelSample not held
\* out in it, and no other row is used.
C16_FoldsPartitionModelSample ==
    (folds # NoFolds /\ cfg.kfold[1] <= Len(comb.rows)) =>
        /\ folds.status = "folds"
        /\ Len(folds.folds) = cfg.kfold[1]
        /\ \A r \in Range(comb.rows) :
              Cardinality({f \in 1..Len(folds.folds) : r \in Range(folds.folds[f].test)}) = 1
        /\ \A f \in 1..Len(folds.folds) :
              /\ Range(folds.folds[f].test) \subseteq Range(comb.rows)
              /\ Range(folds.folds[f].train) = Range(comb.rows) \ Range(folds.folds[f].test)
              /\ Injective(folds.folds[f].train)
              /\ Injective(folds.folds[f].test)

\* =================================================================
\* SpecResult: the artifact built from drawn arrays, compute_bma, merge
\* =================================================================
\* A row of D coefficients with values 0..MaxCoef: cut[v] of them are below
\* v, for v = 1..MaxCoef; falling (the row is not sorted) or rising.
StepRow(D, cut, falling) ==
    [d \in 1..D |->
        LET pos == IF falling THEN D + 1 - d ELSE d
        IN  Cardinality({v \in 1..MaxCoef : cut[v] < pos})]

StepRows(D) ==
    {StepRow(D, cut, f) :
        cut \in {c \in [1..MaxCoef -> 0..D] : \A v \in 1..(MaxCoef - 1) : c[v] <= c[v + 1]},
        f \in BOOLEAN}

\* The state of a single-outcome fit at the end of its loop: the arrays filled.
EndOfLoop(controls, draws, b_array, bics, bvals) ==
    LET subsets == all_subsets(controls)
        n == Len(subsets)
    IN  /\ Construct(Prefix(YNames, 1), FitTable({}))
        /\ cfg = [controls |-> controls, group |-> None, draws |-> draws,
                  sample_size |-> <<>>, replace |-> FALSE,
                  kfold |-> <<>>, shuffle |-> FALSE]
        /\ pc = "spec"
        /\ outcome = "none"
        /\ failure = None
        /\ jy = 0
        /\ index = n
        /\ comb = ModelSample(data, y, XNames, y, subsets[n], None)
        /\ full = NoFull
        /\ done = 1..draws
        /\ strap = <<>>
        /\ processed = [k \in 1..n |-> <<y, subsets[k]>>]
        /\ lists = NoLists
        /\ acc = [specs |-> [k \in 1..n |-> Range(subsets[k])],
                  y_names |-> <<>>,
                  arr |-> [all_predictors |-> [k \in 1..n |-> XNames \o subsets[k] \o <<"const">>],
                           b_all_list |-> [k \in 1..n |->
                                             [c \in 1..(Len(subsets[k]) + 2) |-> bvals[k]]],
                           p_all_list |-> [k \in 1..n |->
                                             [c \in 1..(Len(subsets[k]) + 2) |-> 0]],
                           b_array |-> b_array,
                           p_array |-> [k \in 1..n |-> [d \in 1..draws |-> 0]],
                           ll_array |-> [k \in 1..n |-> 0],
                           aic_array |-> [k \in 1..n |-> 0],
                           bic_array |-> bics,
                           hqic_array |-> [k \in 1..n |-> 0],
                           av_k_metric_array |-> [k \in 1..n |-> NaN]]]

\* Either one specification with any row of D <= MaxSummaryDraws coefficients,
\* or the four specifications of two controls with any BIC values 0..MaxBic.
InitResult ==
    /\ \/ \E D \in 1..MaxSummaryDraws : \E row \in StepRows(D) :
             EndOfLoop(<<>>, D, <<row>>, <<0>>, <<1>>)
       \/ \E bics \in [1..4 -> 0..MaxBic] :
             EndOfLoop(Prefix(ControlNames, 2), 1, [k \in 1..4 |-> <<k>>], bics,
                       [k \in 1..4 |-> k])
    /\ IdleSide
    /\ IdleIo

\* What merge may be handed.
MergeArgs ==
    {[isOLSResult |-> FALSE, y_name |-> "", specs_names |-> <<>>],
     [isOLSResult |-> TRUE, y_name |-> results.y_name.v,
      specs_names |-> results.specs_names],
     [isOLSResult |-> TRUE, y_name |-> "another outcome",
      specs_names |-> results.specs_names],
     [isOLSResult |-> TRUE, y_name |-> results.y_name.v,
      specs_names |-> <<{}, {"w"}>>]}

\* models.py 215-228.
Merge(obj) ==
    /\ pc = "idle"
    /\ results # NoResult
    /\ merged' = [status |-> merge(results, obj), arg |-> obj]
    /\ UNCHANGED <<objVars, callVars, loopVars, sample, bma, ioVars>>

\* models.py 106-114: results.save(filename).
Save ==
    /\ pc = "idle"
    /\ results # NoResult
    /\ file' = [status |-> "written", bytes |-> Pickle(results)]
    /\ UNCHANGED <<objVars, callVars, loopVars, sideVars, loaded, shuffled, folds>>

\* models.py 116-128: OLSResult.load(filename); open raises when there is no file.
Load ==
    /\ pc = "idle"
    /\ loaded' = IF file = NoFile THEN [status |-> "FileNotFoundError"]
                  ELSE [status |-> "loaded", obj |-> Unpickle(file.bytes)]
    /\ UNCHANGED <<objVars, callVars, loopVars, sideVars, file, shuffled, folds>>

NextResult ==
    \/ PublishSingle
    \/ ComputeBMA
    \/ results # NoResult /\ \E obj \in MergeArgs : Merge(obj)

SpecResult == InitResult /\ [][NextResult]_vars

\* SpecSave: the same artifacts, saved to a file and loaded from it.
NextSave ==
    \/ PublishSingle
    \/ Save
    \/ Load

SpecSave == InitResult /\ [][NextSave]_vars

\* C3: in every row of the summary table, for any number of draws and any
\* coefficients, ties included: min <= ci_down <= median <= ci_up <= max.
C3_SummaryOrdered ==
    results # NoResult =>
        \A k \in 1..Len(results.summary_df) :
            LET row == results.summary_df[k]
            IN  /\ row.min <= row.ci_down
                /\ 2 * row.ci_down <= row.median2
                /\ row.median2 <= 2 * row.ci_up
                /\ row.ci_up <= row.max

\* Enough draws for both bounds to leave the extremes, in a row with ties
\* that is not sorted.
C3_Witness ==
    /\ results # NoResult
    /\ results.draws >= 22
    /\ results.summary_df[1].min < results.summary_df[1].ci_down
    /\ results.summary_df[1].ci_up < results.summary_df[1].max
    /\ results.estimates[1][1] > results.estimates[1][results.draws]

\* What C4 says of a table compute_bma returned.
BmaTableNormalized(t) ==
    /\ t.sum_likelihoods >= 1000
    /\ \E i \in 1..Len(t.models_likelihood) : t.models_likelihood[i] = 1000
    /\ \A i \in 1..Len(t.models_likelihood) :
          t.models_likelihood[i] >= 0 /\ t.models_likelihood[i] <= 1000
    /\ SumSeq(t.models_likelihood) = t.sum_likelihoods
    /\ \A k \in 1..Len(t.rows) :
          t.rows[k].probs_num >= 0 /\ t.rows[k].probs_num <= t.sum_likelihoods

\* C4: whenever compute_bma is called on an artifact, it returns a table in
\* which every control has a posterior inclusion probability in [0, 1] and
\* the model weights L_i / Z sum to 1, the largest weight having L_i = 1.
C4_BmaProbabilities ==
    bma # NoBma => (bma.status = "table" /\ BmaTableNormalized(bma))

\* C9: merge handed an OLSResult of another outcome or of another
\* specification space raises instead of returning.
C9_MergeIncompatibleRaises ==
    (/\ merged # NoMerge
     /\ merged.arg.isOLSResult
     /\ \/ merged.arg.y_name # results.y_name.v
        \/ merged.arg.specs_names # results.specs_names)
    => merged.status # "returned"

Dist(a, b) == IF a >= b THEN a - b ELSE b - a

\* v is the observation of the row at a rank nearest to q * (n - 1), q in
\* thousandths and ranks from 0.
IsNearestRank(row, q1000, v) ==
    \E pos \in 0..(Len(row) - 1) :
        /\ Sorted(row)[pos + 1] = v
        /\ \A other \in 0..(Len(row) - 1) :
              Dist(1000 * pos, q1000 * (Len(row) - 1))
                 <= Dist(1000 * other, q1000 * (Len(row) - 1))

\* C19: for every specification and any number of draws, ci_down and ci_up
\* are values that occur in the specification's row of bootstrap
\* coefficients: the observations at the ranks nearest to 0.025 * (D - 1) and
\* 0.975 * (D - 1), not values between two observations.
C19_QuantilesAreObservations ==
    results # NoResult =>
        \A k \in 1..Len(results.summary_df) :
            /\ results.summary_df[k].ci_down \in Range(results.estimates[k])
            /\ results.summary_df[k].ci_up \in Range(results.estimates[k])
            /\ IsNearestRank(results.estimates[k], 25, results.summary_df[k].ci_down)
            /\ IsNearestRank(results.estimates[k], 975, results.summary_df[k].ci_up)

\* 21 draws, where 0.025 * (D - 1) lies half-way between two ranks that hold
\* different values with no observation between them.
C19_Witness ==
    /\ results # NoResult
    /\ results.draws = 21
    /\ Sorted(results.estimates[1])[1] = 0
    /\ Sorted(results.estimates[1])[2] = 2

====
